---- MODULE Spec2Model ----
(***************************************************************************)
(* A model of the adaptive number-guessing game of src/game.py: the        *)
(* session of main(), its two game modes, and the learners that the        *)
(* human-guesses mode trains.                                              *)
(*                                                                         *)
(* Numbers.  Python ints are unbounded and are TLA+ integers.  Python      *)
(* floats are modelled as exact rationals, with the literals 0.9, 0.1,     *)
(* 0.8, 0.2, 0.3, 0.5, 1.2 read as the decimals they are written as:       *)
(*   - k, avg_attempts and the per-style averages are reduced fractions    *)
(*     [n, d] of small integers;                                           *)
(*   - alpha is a fraction of two naturals of arbitrary size, each a       *)
(*     little-endian sequence of base-Base limbs, since its denominator    *)
(*     grows tenfold and by the range width with every blend.              *)
(* Floating-point rounding error is therefore not modelled; round() is     *)
(* modelled as Python 3 computes it, to the nearest integer with ties to   *)
(* the even one.                                                           *)
(***************************************************************************)
EXTENDS Integers, Sequences, FiniteSets, TLC

(***************************************************************************)
(* Bounds of the model.                                                    *)
(***************************************************************************)
\* human-guesses games that a session may win (caps games_played)
MaxGames == 1
\* largest range_size found in a persisted record
MaxSavedRange == 2
\* ranges up to this size are played with every guess and every secret
FullRange == 3
\* guesses that system-guesses mode may issue in one game (caps attempts)
MaxAttempts == 3

(***************************************************************************)
(* Small helpers.                                                          *)
(***************************************************************************)
Max(a, b) == IF a >= b THEN a ELSE b

Min(a, b) == IF a <= b THEN a ELSE b

Abs(a) == IF a < 0 THEN -a ELSE a

RECURSIVE GCD(_, _)
GCD(a, b) == IF b = 0 THEN a ELSE GCD(b, a % b)

(***************************************************************************)
(* Floats as reduced fractions of small integers (d > 0).                  *)
(***************************************************************************)
Rat(n, d) ==
    LET g == GCD(Abs(n), Abs(d))
        s == IF d < 0 THEN -1 ELSE 1
    IN  [n |-> s * (n \div g), d |-> s * (d \div g)]

RatOfInt(i) == [n |-> i, d |-> 1]

RatAdd(x, y) == Rat(x.n * y.d + y.n * x.d, x.d * y.d)

RatSub(x, y) == Rat(x.n * y.d - y.n * x.d, x.d * y.d)

RatMul(x, y) == Rat(x.n * y.n, x.d * y.d)

RatLess(x, y) == x.n * y.d < y.n * x.d

RatLeq(x, y) == x.n * y.d <= y.n * x.d

RatMax(x, y) == IF RatLess(x, y) THEN y ELSE x

RatMin(x, y) == IF RatLess(y, x) THEN y ELSE x

\* Python's None, in the place of a float
None == [n |-> 0, d |-> 0]

IsNone(x) == x.d = 0

(***************************************************************************)
(* Naturals of arbitrary size: little-endian limbs, no leading zero limb,  *)
(* zero is the empty sequence.                                             *)
(***************************************************************************)
Base == 10000

RECURSIVE BigOf(_)
BigOf(i) == IF i = 0 THEN <<>> ELSE <<i % Base>> \o BigOf(i \div Base)

RECURSIVE BigMulCarry(_, _, _)
BigMulCarry(a, m, c) ==
    IF a = <<>>
    THEN BigOf(c)
    ELSE LET t == Head(a) * m + c
         IN  <<t % Base>> \o BigMulCarry(Tail(a), m, t \div Base)

\* a * m for a small natural m
BigMul(a, m) == IF m = 0 THEN <<>> ELSE BigMulCarry(a, m, 0)

RECURSIVE BigAddCarry(_, _, _)
BigAddCarry(a, b, c) ==
    IF a = <<>> /\ b = <<>>
    THEN BigOf(c)
    ELSE LET x == IF a = <<>> THEN 0 ELSE Head(a)
             y == IF b = <<>> THEN 0 ELSE Head(b)
             t == x + y + c
         IN  <<t % Base>>
             \o BigAddCarry(IF a = <<>> THEN a ELSE Tail(a),
                            IF b = <<>> THEN b ELSE Tail(b), t \div Base)

BigAdd(a, b) == BigAddCarry(a, b, 0)

RECURSIVE BigLessFrom(_, _, _)
BigLessFrom(a, b, i) ==
    IF i = 0 THEN FALSE
    ELSE IF a[i] # b[i] THEN a[i] < b[i]
    ELSE BigLessFrom(a, b, i - 1)

BigLess(a, b) ==
    IF Len(a) # Len(b) THEN Len(a) < Len(b) ELSE BigLessFrom(a, b, Len(a))

BigLeq(a, b) == ~BigLess(b, a)

\* the fraction n/d as a float of arbitrary precision
BigRat(n, d) == [n |-> BigOf(n), d |-> BigOf(d)]

(***************************************************************************)
(* Arithmetic of alpha: fractions of naturals of arbitrary size.           *)
(***************************************************************************)
RECURSIVE BigQuotBound(_, _, _)
\* a power of two h (times the h given) with x < h * d
BigQuotBound(x, d, h) ==
    IF BigLess(x, BigMul(d, h)) THEN h ELSE BigQuotBound(x, d, 2 * h)

RECURSIVE BigFloorSearch(_, _, _, _)
\* the q in lo..hi with q*d <= x < (q+1)*d, given lo*d <= x < (hi+1)*d
BigFloorSearch(x, d, lo, hi) ==
    IF lo = hi THEN lo
    ELSE LET mid == (lo + hi + 1) \div 2
         IN  IF BigLeq(BigMul(d, mid), x)
             THEN BigFloorSearch(x, d, mid, hi)
             ELSE BigFloorSearch(x, d, lo, mid - 1)

BigFloorDiv(x, d) == BigFloorSearch(x, d, 0, BigQuotBound(x, d, 1) - 1)

\* rounding with ties upwards, which Python 3 does not do
RoundHalfUp(x, d) ==
    LET q == BigFloorDiv(x, d)
    IN  IF BigLess(BigMul(x, 2), BigMul(d, 2 * q + 1)) THEN q ELSE q + 1

\* Python 3's round() of the non-negative float x/d: the nearest integer,
\* and of two equally near ones the even one
round(x, d) ==
    LET q == BigFloorDiv(x, d)
        twice == BigMul(x, 2)
        half == BigMul(d, 2 * q + 1)
    IN  IF BigLess(twice, half) THEN q
        ELSE IF BigLess(half, twice) THEN q + 1
        ELSE IF q % 2 = 0 THEN q ELSE q + 1

(***************************************************************************)
(* Floats as Python computes them: IEEE 754 binary64 with rounding to the  *)
(* nearest, ties to the even significand.  A float is [m, e] with the      *)
(* value m / 2^e, m a natural of arbitrary size: zero is m = <<>>, e = 0,   *)
(* every other float has 2^52 <= m < 2^53.  Only the non-negative normal   *)
(* floats below 2^53 occur.                                                *)
(***************************************************************************)
\* a * b
RECURSIVE BigMulBig(_, _)
BigMulBig(a, b) ==
    IF a = <<>> \/ b = <<>>
    THEN <<>>
    ELSE LET rest == BigMulBig(a, Tail(b))
         IN  BigAdd(BigMul(a, Head(b)),
                    IF rest = <<>> THEN <<>> ELSE <<0>> \o rest)

\* the limbs without leading zero limbs
RECURSIVE BigTrim(_)
BigTrim(a) ==
    IF a = <<>> \/ a[Len(a)] # 0 THEN a ELSE BigTrim(SubSeq(a, 1, Len(a) - 1))

RECURSIVE BigSubBorrow(_, _, _)
BigSubBorrow(a, b, c) ==
    IF a = <<>>
    THEN <<>>
    ELSE LET y == IF b = <<>> THEN 0 ELSE Head(b)
             t == Head(a) - y - c
         IN  <<t % Base>>
             \o BigSubBorrow(Tail(a), IF b = <<>> THEN b ELSE Tail(b),
                             IF t < 0 THEN 1 ELSE 0)

\* a - b for a >= b
BigSub(a, b) == BigTrim(BigSubBorrow(a, b, 0))

\* one step of long division: the quotient limb of cur by d (cur < Base * d)
\* and what remains
DivStep(cur, d) ==
    LET digit == BigFloorSearch(cur, d, 0, Base - 1)
    IN  [digit |-> digit, r |-> BigSub(cur, BigMul(d, digit))]

\* long division by d of the limbs a[i], .., a[1], with quotient q and
\* remainder r of the limbs above them
RECURSIVE BigDivFrom(_, _, _, _, _)
BigDivFrom(a, d, i, q, r) ==
    IF i = 0
    THEN [q |-> q, r |-> r]
    ELSE LET step == DivStep(BigTrim(<<a[i]>> \o r), d)
         IN  IF step.digit = 0 /\ q = <<>>
             THEN BigDivFrom(a, d, i - 1, <<>>, step.r)
             ELSE BigDivFrom(a, d, i - 1, <<step.digit>> \o q, step.r)

BigDivMod(a, d) == BigDivFrom(a, d, Len(a), <<>>, <<>>)

\* 2^k, thirteen bits at a time (2^13 < Base)
RECURSIVE Pow2(_)
Pow2(k) == IF k < 13 THEN <<2 ^ k>> ELSE BigMul(Pow2(k - 13), 2 ^ 13)

\* the least s >= `s` with n * 2^s >= bound, given n * 2^`s` as `scaled`
RECURSIVE ScaleUp(_, _, _)
ScaleUp(scaled, bound, s) ==
    IF BigLeq(bound, scaled) THEN s
    ELSE IF BigLess(BigMul(scaled, 2 ^ 13), bound)
    THEN ScaleUp(BigMul(scaled, 2 ^ 13), bound, s + 13)
    ELSE ScaleUp(BigMul(scaled, 2), bound, s + 1)

\* the least k >= `k` with n < bound * 2^k, given bound * 2^`k` as `scaled`
RECURSIVE ScaleDown(_, _, _)
ScaleDown(n, scaled, k) ==
    IF BigLess(n, scaled) THEN k
    ELSE IF BigLeq(BigMul(scaled, 2 ^ 13), n)
    THEN ScaleDown(n, BigMul(scaled, 2 ^ 13), k + 13)
    ELSE ScaleDown(n, BigMul(scaled, 2), k + 1)

\* the float nearest to n / (d * 2^e): the quotient is scaled into
\* [2^52, 2^53) and rounded to an integer, ties to the even one
fl(n, d, e) ==
    IF n = <<>>
    THEN [m |-> <<>>, e |-> 0]
    ELSE LET up == ScaleUp(n, BigMulBig(d, Pow2(52)), 0)
             down == ScaleDown(n, BigMulBig(d, Pow2(53)), 0)
             den == BigMulBig(d, Pow2(down))
             dm == BigDivMod(BigMulBig(n, Pow2(up)), den)
             twice == BigMul(dm.r, 2)
             odd == Head(dm.q) % 2 = 1
             m == IF BigLess(den, twice) \/ (twice = den /\ odd)
                  THEN BigAdd(dm.q, <<1>>) ELSE dm.q
         IN  IF m = Pow2(53)
             THEN [m |-> Pow2(52), e |-> e + up - down - 1]
             ELSE [m |-> m, e |-> e + up - down]

\* the float a literal or a JSON number n/d is read as, and int / int
float(n, d) == fl(BigOf(n), BigOf(d), 0)

\* x * y and x + y in floats
FMul(x, y) == fl(BigMulBig(x.m, y.m), <<1>>, x.e + y.e)

FAdd(x, y) ==
    LET e == Max(x.e, y.e)
    IN  fl(BigAdd(BigMulBig(x.m, Pow2(e - x.e)), BigMulBig(y.m, Pow2(e - y.e))),
           <<1>>, e)

\* x < y and x <= y on floats
FLess(x, y) ==
    LET e == Max(x.e, y.e)
    IN  BigLess(BigMulBig(x.m, Pow2(e - x.e)), BigMulBig(y.m, Pow2(e - y.e)))

FLeq(x, y) == ~FLess(y, x)

(***************************************************************************)
(* HotColdLearner                                                          *)
(***************************************************************************)
target_guesses == 3

learning_rate == Rat(1, 10)

\* the constructor: k = 0.3, no history
HotColdLearner == [k |-> Rat(3, 10), history |-> <<>>]

\* the clamp that ends update_k: max(0.1, min(0.8, k))
ClampKNone(k) == k

ClampK(k) == RatMax(Rat(1, 10), RatMin(Rat(8, 10), k))

\* the value update_k leaves in k
update_k(k, actual_guesses, predicted_guesses) ==
    ClampK(IF actual_guesses <= target_guesses
           THEN RatAdd(k, RatMul(learning_rate,
                    RatSub(RatOfInt(1), Rat(predicted_guesses, target_guesses))))
           ELSE RatSub(k, RatMul(learning_rate,
                    RatSub(Rat(actual_guesses, target_guesses), RatOfInt(1)))))

\* a recording that predicts what the game took
record_game_predicts_actual(learner, actual_guesses) ==
    LET predicted_guesses == actual_guesses
    IN  [k |-> update_k(learner.k, actual_guesses, predicted_guesses),
         history |-> Append(learner.history, <<actual_guesses, predicted_guesses>>)]

\* the learner after record_game(actual_guesses)
record_game(learner, actual_guesses) ==
    LET predicted_guesses == target_guesses
    IN  [k |-> update_k(learner.k, actual_guesses, predicted_guesses),
         history |-> Append(learner.history, <<actual_guesses, predicted_guesses>>)]

(***************************************************************************)
(* HintBandit                                                              *)
(***************************************************************************)
hint_styles == <<"hot_cold", "higher_lower", "range">>

Styles == {hint_styles[i] : i \in 1..Len(hint_styles)}

\* a constructor that starts every average above any game's
HintBanditPessimistic ==
    [attempts |-> [s \in Styles |-> 0],
     avg_attempts |-> [s \in Styles |-> RatOfInt(100)],
     total_games |-> 0]

\* the constructor: no game recorded for any style
HintBandit ==
    [attempts |-> [s \in Styles |-> 0],
     avg_attempts |-> [s \in Styles |-> RatOfInt(0)],
     total_games |-> 0]

\* min() from the i-th style on, with `best` the least so far: a later style
\* replaces it only when its average is strictly less
RECURSIVE MinByAvg(_, _, _)
MinByAvg(bandit, best, i) ==
    IF i > Len(hint_styles)
    THEN best
    ELSE LET s == hint_styles[i]
         IN  MinByAvg(bandit,
                      IF RatLess(bandit.avg_attempts[s], bandit.avg_attempts[best])
                      THEN s ELSE best,
                      i + 1)

\* a minimum that lets a later style of equal average win
BestStyleOfLast(bandit) ==
    LET avg(i) == bandit.avg_attempts[hint_styles[i]]
        best == CHOOSE i \in 1..Len(hint_styles) :
                    /\ \A j \in 1..Len(hint_styles) : RatLeq(avg(i), avg(j))
                    /\ \A j \in (i + 1)..Len(hint_styles) : RatLess(avg(i), avg(j))
    IN  hint_styles[best]

\* min(hint_styles, key = avg_attempts)
BestStyle(bandit) == MinByAvg(bandit, hint_styles[1], 2)

\* what select_hint_style returns when random.random() < exploration_rate is
\* explore: any style, or the best one
select_hint_style(bandit, explore) ==
    IF explore THEN Styles ELSE {BestStyle(bandit)}

\* an update that blends from the first game on
update_stats_blend_first(bandit, hint_style, attempts) ==
    LET count == bandit.attempts[hint_style] + 1
        old == bandit.avg_attempts[hint_style]
        avg == RatAdd(RatMul(Rat(8, 10), old),
                      RatMul(Rat(2, 10), RatOfInt(attempts)))
    IN  [attempts |-> [bandit.attempts EXCEPT ![hint_style] = count],
         avg_attempts |-> [bandit.avg_attempts EXCEPT ![hint_style] = avg],
         total_games |-> bandit.total_games + 1]

\* the bandit after update_stats(hint_style, attempts)
update_stats(bandit, hint_style, attempts) ==
    LET count == bandit.attempts[hint_style] + 1
        old == bandit.avg_attempts[hint_style]
        avg == IF count = 1
               THEN RatOfInt(attempts)
               ELSE RatAdd(RatMul(Rat(8, 10), old),
                           RatMul(Rat(2, 10), RatOfInt(attempts)))
    IN  [attempts |-> [bandit.attempts EXCEPT ![hint_style] = count],
         avg_attempts |-> [bandit.avg_attempts EXCEPT ![hint_style] = avg],
         total_games |-> bandit.total_games + 1]

(***************************************************************************)
(* UserProfile and its persisted record                                    *)
(***************************************************************************)
\* the constructor's profile
UserProfile ==
    [alpha |-> BigRat(1, 2),
     avg_attempts |-> None,
     range_size |-> 100,
     games_played |-> 0,
     hot_cold_learner |-> HotColdLearner,
     hint_bandit |-> HintBandit]

\* user_<username>.json as save_to_file writes it; exists is os.path.exists
SavedRecord(user) ==
    [exists |-> TRUE,
     alpha |-> user.alpha,
     avg_attempts |-> user.avg_attempts,
     range_size |-> user.range_size,
     games_played |-> user.games_played,
     hot_cold_k |-> user.hot_cold_learner.k,
     hint_style_stats |->
        [s \in Styles |->
            [attempts |-> user.hint_bandit.attempts[s],
             avg_attempts |-> user.hint_bandit.avg_attempts[s]]]]

\* no file of that name
NoFile == [SavedRecord(UserProfile) EXCEPT !.exists = FALSE]

\* data.get(key, default) on the parsed record
Get(data, key, default) == IF key \in DOMAIN data THEN data[key] ELSE default

\* json.load raises on a file that is not JSON
json_load_raises(data) == "unparsable" \in DOMAIN data

\* the loop over data['hint_style_stats'].items() from the i-th style on, for
\* a file that lists the styles in the order save_to_file writes them: an
\* entry of no known style is skipped; a missing key raises KeyError, which
\* ends the loop with what was assigned so far
RECURSIVE LoadStats(_, _, _)
LoadStats(bandit, stats, i) ==
    IF i > Len(hint_styles)
    THEN [bandit |-> bandit, raised |-> FALSE]
    ELSE LET s == hint_styles[i]
         IN  IF s \notin DOMAIN stats
             THEN LoadStats(bandit, stats, i + 1)
             ELSE IF "attempts" \notin DOMAIN stats[s]
             THEN [bandit |-> bandit, raised |-> TRUE]
             ELSE LET counted == [bandit EXCEPT
                                    !.attempts[s] = stats[s]["attempts"]]
                  IN  IF "avg_attempts" \notin DOMAIN stats[s]
                      THEN [bandit |-> counted, raised |-> TRUE]
                      ELSE LoadStats(
                              [counted EXCEPT
                                 !.avg_attempts[s] = stats[s]["avg_attempts"]],
                              stats, i + 1)

\* load_from_file run on the profile `user` with the file `data`: the profile
\* afterwards and the value returned.  The learner's history and the bandit's
\* total_games are not in the file and keep their values
Load(user, data) ==
    IF ~data["exists"] \/ json_load_raises(data)
    THEN [user |-> user, returns |-> FALSE]
    ELSE LET top == [user EXCEPT
                        !.alpha = Get(data, "alpha", BigRat(1, 2)),
                        !.avg_attempts = Get(data, "avg_attempts", None),
                        !.range_size = Get(data, "range_size", 100),
                        !.games_played = Get(data, "games_played", 0),
                        !.hot_cold_learner.k =
                            Get(data, "hot_cold_k", user.hot_cold_learner.k)]
             stats == IF "hint_style_stats" \in DOMAIN data
                      THEN LoadStats(user.hint_bandit, data["hint_style_stats"], 1)
                      ELSE [bandit |-> user.hint_bandit, raised |-> FALSE]
         IN  [user |-> [top EXCEPT !.hint_bandit = stats.bandit],
              returns |-> ~stats.raised]

\* the profile after load_from_file
load_from_file(user, data) == Load(user, data).user

\* what load_from_file returns
load_from_file_returns(user, data) == Load(user, data).returns

\* the position biases found in persisted records
SavedAlphas == {BigRat(0, 1), BigRat(1, 2), BigRat(2, 1)}

\* the records a session may find: none, or one of a profile that has not
\* trained its learners yet
Files ==
    {NoFile}
    \cup {[SavedRecord(UserProfile) EXCEPT !.alpha = a, !.range_size = r] :
            a \in SavedAlphas, r \in 1..MaxSavedRange}

(***************************************************************************)
(* AdaptiveGame: the pure parts of the two modes                           *)
(***************************************************************************)
\* int() of a non-negative float n/d: truncation
int(x) == x.n \div x.d

\* a shrinking without its floor
update_user_stats_unfloored(user, attempts) ==
    LET avg == IF IsNone(user.avg_attempts)
               THEN RatOfInt(attempts)
               ELSE RatAdd(RatMul(Rat(8, 10), user.avg_attempts),
                           RatMul(Rat(2, 10), RatOfInt(attempts)))
        size == IF RatLess(avg, RatOfInt(4))
                THEN Min(10000, int(RatMul(RatOfInt(user.range_size), Rat(12, 10))))
                ELSE IF RatLess(RatOfInt(8), avg)
                THEN int(RatMul(RatOfInt(user.range_size), Rat(8, 10)))
                ELSE user.range_size
    IN  [user EXCEPT !.avg_attempts = avg,
                     !.games_played = user.games_played + 1,
                     !.range_size = size]

\* update_user_stats: the profile after a game won in `attempts` guesses
update_user_stats(user, attempts) ==
    LET avg == IF IsNone(user.avg_attempts)
               THEN RatOfInt(attempts)
               ELSE RatAdd(RatMul(Rat(8, 10), user.avg_attempts),
                           RatMul(Rat(2, 10), RatOfInt(attempts)))
        size == IF RatLess(avg, RatOfInt(4))
                THEN Min(10000, int(RatMul(RatOfInt(user.range_size), Rat(12, 10))))
                ELSE IF RatLess(RatOfInt(8), avg)
                THEN Max(10, int(RatMul(RatOfInt(user.range_size), Rat(8, 10))))
                ELSE user.range_size
    IN  [user EXCEPT !.avg_attempts = avg,
                     !.games_played = user.games_played + 1,
                     !.range_size = size]

\* a draw that may fall one below the range
randint_from_below(lo, hi) == (lo - 1)..hi

\* random.randint(lo, hi)
randint(lo, hi) == lo..hi

\* a range test that forgets the upper end
out_of_range_low_only(guess, cur_lo, cur_hi) == guess < cur_lo

\* the test that rejects a guess: guess < cur_lo or guess > cur_hi
out_of_range(guess, cur_lo, cur_hi) == guess < cur_lo \/ guess > cur_hi

\* alpha after an accepted guess: 0.9 * alpha + 0.1 * pos when the range has
\* more than one number, with pos = (guess - cur_lo) / (cur_hi - cur_lo)
blend_alpha(alpha, guess, cur_lo, cur_hi) ==
    IF cur_hi > cur_lo
    THEN LET w == cur_hi - cur_lo
             p == guess - cur_lo
         IN  [n |-> BigAdd(BigMul(alpha.n, 9 * w), BigMul(alpha.d, p)),
              d |-> BigMul(alpha.d, 10 * w)]
    ELSE alpha

\* a blend that gives the guess twice its weight
blend_alpha_float_heavy(alpha, guess, cur_lo, cur_hi) ==
    IF cur_hi > cur_lo
    THEN FAdd(FMul(float(9, 10), alpha),
              FMul(float(2, 10), float(guess - cur_lo, cur_hi - cur_lo)))
    ELSE alpha

\* alpha after an accepted guess, as the floats compute it:
\* pos = (guess - cur_lo) / (cur_hi - cur_lo), then 0.9 * alpha + 0.1 * pos
blend_alpha_float(alpha, guess, cur_lo, cur_hi) ==
    IF cur_hi > cur_lo
    THEN FAdd(FMul(float(9, 10), alpha),
              FMul(float(1, 10), float(guess - cur_lo, cur_hi - cur_lo)))
    ELSE alpha

\* a narrowing that forgets the + 1
user_narrow_lo_same(cur_lo, guess) == Max(cur_lo, guess)

\* the narrowing of play_user_guesses after a guess below / above the secret
user_narrow_lo(cur_lo, guess) == Max(cur_lo, guess + 1)

user_narrow_hi(cur_hi, guess) == Min(cur_hi, guess - 1)

\* a narrowing pasted from the other response
computer_narrow_lo_pasted(cur_lo, guess) == Min(cur_lo, guess - 1)

\* the narrowing of play_computer_guesses after the responses h and l
computer_narrow_lo(cur_lo, guess) == Max(cur_lo, guess + 1)

computer_narrow_hi(cur_hi, guess) == Min(cur_hi, guess - 1)

\* a guess that is not clamped
biased_guess_unclamped(cur_lo, cur_hi, alpha) ==
    IF cur_hi > cur_lo
    THEN round(BigAdd(BigMul(alpha.d, cur_lo),
                      BigMul(alpha.n, cur_hi - cur_lo)), alpha.d)
    ELSE cur_lo

\* the guess play_computer_guesses issues for a range: the rounded biased
\* position lo + (hi - lo) * alpha, clamped into the range
biased_guess(cur_lo, cur_hi, alpha) ==
    LET raw == IF cur_hi > cur_lo
               THEN round(BigAdd(BigMul(alpha.d, cur_lo),
                                 BigMul(alpha.n, cur_hi - cur_lo)), alpha.d)
               ELSE cur_lo
    IN  Max(cur_lo, Min(cur_hi, raw))

\* a system-guesses mode that records its win like the other mode
computer_wins_recorded(u, n) == update_user_stats(u, n)

\* the profile after the response c: "Got it in n attempts!", no update
computer_wins(u, n) == u

(***************************************************************************)
(* The session: main()'s menu loop and the two game modes.                 *)
(*                                                                         *)
(* mode is the input() call the program is blocked in: "menu" (the menu    *)
(* prompt), "user" (the guess prompt of play_user_guesses), "ready" and    *)
(* "computer" (the ready prompt and the h/l/c prompt of                    *)
(* play_computer_guesses); "exited" after main() returned and "crashed"    *)
(* after an exception left main().  One action is the program's run from   *)
(* one input() to the next.  lastInput, explore and answered record what   *)
(* the environment did: the line a game mode read last, the draw of        *)
(* random.random() in select_hint_style, and the number of h, l and c      *)
(* responses of the current system-guesses game.  The locals of a game     *)
(* mode and its outcome stay as the mode left them until the menu reads    *)
(* its next line.                                                          *)
(***************************************************************************)
VARIABLES mode, file, user, secret, attempts, cur_lo, cur_hi, hint_style,
          explore, guess, outcome, lastInput, answered

vars == <<mode, file, user, secret, attempts, cur_lo, cur_hi, hint_style,
          explore, guess, outcome, lastInput, answered>>

\* the locals of a game
game == <<secret, attempts, cur_lo, cur_hi, hint_style, explore, guess, answered>>

In(kind, val) == [kind |-> kind, val |-> val]

\* the integers tried as guesses in large ranges, and the secrets drawn there
ScenarioGuesses == {25, 50, 75}

ScenarioSecrets == {50}

GuessInputs(range_size) ==
    IF range_size <= FullRange
    THEN 0..(range_size + 1)
    ELSE ScenarioGuesses \cup {0, range_size + 1}

SecretInputs(range_size) ==
    IF range_size <= FullRange THEN 0..(range_size + 1) ELSE ScenarioSecrets

\* no game mode is running and none has just returned
NoGame ==
    /\ secret = 0
    /\ attempts = 0
    /\ cur_lo = 1
    /\ cur_hi = 1
    /\ hint_style = "none"
    /\ explore = FALSE
    /\ guess = 0
    /\ answered = 0
    /\ outcome = "NONE"
    /\ lastInput = In("none", 0)

\* the menu reads its next line: what the last game mode left is gone
ForgetGame ==
    /\ secret' = 0
    /\ attempts' = 0
    /\ cur_lo' = 1
    /\ cur_hi' = 1
    /\ hint_style' = "none"
    /\ explore' = FALSE
    /\ guess' = 0
    /\ answered' = 0
    /\ outcome' = "NONE"
    /\ lastInput' = In("none", 0)

\* AdaptiveGame.__init__: a default profile, then load_from_file
Init ==
    /\ file \in Files
    /\ user = load_from_file(UserProfile, file)
    /\ mode = "menu"
    /\ NoGame

(***************************************************************************)
(* play_user_guesses                                                       *)
(***************************************************************************)
\* menu choice 1: the secret is drawn and the hint style selected
ChooseUserGuesses ==
    /\ mode = "menu"
    /\ user.games_played < MaxGames
    /\ \E s \in randint(1, user.range_size) \cap SecretInputs(user.range_size),
          e \in BOOLEAN :
          \E style \in select_hint_style(user.hint_bandit, e) :
            /\ secret' = s
            /\ explore' = e
            /\ hint_style' = style
    /\ attempts' = 0
    /\ cur_lo' = 1
    /\ cur_hi' = user.range_size
    /\ guess' = 0
    /\ answered' = 0
    /\ mode' = "user"
    /\ outcome' = "NONE"
    /\ lastInput' = In("none", 0)
    /\ UNCHANGED <<file, user>>

\* int() raises ValueError: "Numbers only, please!" and the prompt again
UserGuessNotNumber ==
    /\ mode = "user"
    /\ lastInput' = In("text", 0)
    /\ UNCHANGED <<mode, file, user, game, outcome>>

\* input() raises EOFError or KeyboardInterrupt, which neither
\* play_user_guesses nor main() catches
UserGuessInterrupt ==
    /\ mode = "user"
    /\ lastInput' = In("eof", 0)
    /\ mode' = "crashed"
    /\ outcome' = "CRASHED"
    /\ UNCHANGED <<file, user, game>>

\* a win that the learner does not record
user_wins_unrecorded(u, style, n) ==
    update_user_stats(
        [u EXCEPT !.hint_bandit = update_stats(u.hint_bandit, style, n)], n)

\* the profile after the guess that equals the secret
user_wins(u, style, n) ==
    update_user_stats(
        [u EXCEPT !.hot_cold_learner = record_game(u.hot_cold_learner, n),
                  !.hint_bandit = update_stats(u.hint_bandit, style, n)], n)

\* an integer is read: rejected outside [cur_lo, cur_hi], else counted,
\* blended into alpha and compared with the secret
UserGuess(g) ==
    /\ mode = "user"
    /\ lastInput' = In("int", g)
    /\ guess' = g
    /\ IF out_of_range(g, cur_lo, cur_hi)
       THEN UNCHANGED <<mode, user, attempts, cur_lo, cur_hi, outcome>>
       ELSE LET blended == [user EXCEPT
                              !.alpha = blend_alpha(user.alpha, g, cur_lo, cur_hi)]
            IN  /\ attempts' = attempts + 1
                /\ IF g = secret
                   THEN /\ user' = user_wins(blended, hint_style, attempts + 1)
                        /\ mode' = "menu"
                        /\ outcome' = "WON"
                        /\ UNCHANGED <<cur_lo, cur_hi>>
                   ELSE /\ user' = blended
                        /\ cur_lo' = IF g < secret
                                     THEN user_narrow_lo(cur_lo, g) ELSE cur_lo
                        /\ cur_hi' = IF g < secret
                                     THEN cur_hi ELSE user_narrow_hi(cur_hi, g)
                        /\ UNCHANGED <<mode, outcome>>
    /\ UNCHANGED <<file, secret, hint_style, explore, answered>>

(***************************************************************************)
(* play_computer_guesses                                                   *)
(***************************************************************************)
\* menu choice 2, up to the ready prompt
ChooseComputerGuesses ==
    /\ mode = "menu"
    /\ attempts' = 0
    /\ cur_lo' = 1
    /\ cur_hi' = user.range_size
    /\ secret' = 0
    /\ hint_style' = "none"
    /\ explore' = FALSE
    /\ guess' = 0
    /\ answered' = 0
    /\ mode' = "ready"
    /\ outcome' = "NONE"
    /\ lastInput' = In("none", 0)
    /\ UNCHANGED <<file, user>>

\* the top of the loop: the next guess is computed, counted and printed
IssueGuess(lo, hi) ==
    /\ guess' = biased_guess(lo, hi, user.alpha)
    /\ attempts' = attempts + 1
    /\ mode' = "computer"

\* a line at the ready prompt: the first guess
ReadyEnter ==
    /\ mode = "ready"
    /\ lastInput' = In("line", 0)
    /\ IssueGuess(cur_lo, cur_hi)
    /\ UNCHANGED <<file, user, secret, cur_lo, cur_hi, hint_style, explore,
                   outcome, answered>>

\* the ready prompt is outside every try: the exception leaves main()
ReadyInterrupt ==
    /\ mode = "ready"
    /\ lastInput' = In("eof", 0)
    /\ mode' = "crashed"
    /\ outcome' = "CRASHED"
    /\ UNCHANGED <<file, user, game>>

\* the response after strip().lower(); "other" is any string but h, l, c
Responses == {"h", "l", "c", "other"}

ComputerRespond(r) ==
    /\ mode = "computer"
    /\ lastInput' = In(r, 0)
    /\ r # "c" => attempts < MaxAttempts
    /\ answered' = IF r = "other" THEN answered ELSE answered + 1
    /\ LET lo == IF r = "h" THEN computer_narrow_lo(cur_lo, guess) ELSE cur_lo
           hi == IF r = "l" THEN computer_narrow_hi(cur_hi, guess) ELSE cur_hi
       IN  /\ cur_lo' = lo
           /\ cur_hi' = hi
           /\ IF r = "c"
              THEN /\ user' = computer_wins(user, attempts)
                   /\ mode' = "menu"
                   /\ outcome' = "WON"
                   /\ UNCHANGED <<guess, attempts>>
              ELSE IF r # "other" /\ lo > hi
              THEN /\ mode' = "menu"
                   /\ outcome' = "INVALID"
                   /\ UNCHANGED <<user, guess, attempts>>
              ELSE /\ IssueGuess(lo, hi)
                   /\ UNCHANGED <<user, outcome>>
    /\ UNCHANGED <<file, secret, hint_style, explore>>

\* EOFError or KeyboardInterrupt at the h/l/c prompt: "Game interrupted."
ComputerInterrupt ==
    /\ mode = "computer"
    /\ lastInput' = In("eof", 0)
    /\ mode' = "menu"
    /\ outcome' = "INTERRUPTED"
    /\ UNCHANGED <<file, user, game>>

(***************************************************************************)
(* The rest of the menu                                                    *)
(***************************************************************************)
\* choice 3 prints the statistics, any line but 1..5 asks again
MenuShowOrInvalid ==
    /\ mode = "menu"
    /\ ForgetGame
    /\ UNCHANGED <<mode, file, user>>

\* choice 4
MenuSave ==
    /\ mode = "menu"
    /\ file' = SavedRecord(user)
    /\ ForgetGame
    /\ UNCHANGED <<mode, user>>

\* choice 5: the profile is saved and main() returns
MenuQuit ==
    /\ mode = "menu"
    /\ file' = SavedRecord(user)
    /\ mode' = "exited"
    /\ ForgetGame
    /\ UNCHANGED user

\* EOFError or KeyboardInterrupt at the menu: "Goodbye!", nothing saved
MenuInterrupt ==
    /\ mode = "menu"
    /\ mode' = "exited"
    /\ ForgetGame
    /\ UNCHANGED <<file, user>>

Next ==
    \/ ChooseUserGuesses
    \/ UserGuessNotNumber
    \/ UserGuessInterrupt
    \/ \E g \in GuessInputs(user.range_size) : UserGuess(g)
    \/ ChooseComputerGuesses
    \/ ReadyEnter
    \/ ReadyInterrupt
    \/ \E r \in Responses : ComputerRespond(r)
    \/ ComputerInterrupt
    \/ MenuShowOrInvalid
    \/ MenuSave
    \/ MenuQuit
    \/ MenuInterrupt

Spec == Init /\ [][Next]_vars

(***************************************************************************)
(* The learner alone: record_game called with any numbers of guesses.      *)
(***************************************************************************)
\* the largest actual_guesses recorded, and the number of games recorded
MaxActual == 12

MaxHistory == 3

RecordGame(a) ==
    /\ Len(user.hot_cold_learner.history) < MaxHistory
    /\ user' = [user EXCEPT !.hot_cold_learner = record_game(@, a)]
    /\ UNCHANGED <<mode, file, game, outcome, lastInput>>

NextLearner == \E a \in 1..MaxActual : RecordGame(a)

SpecLearner == Init /\ [][NextLearner]_vars

(***************************************************************************)
(* Properties                                                              *)
(***************************************************************************)
\* a human-guesses game is running, or is the game that ended last
UserGame == hint_style # "none"

\* a system-guesses game is running, or is the game that ended last
ComputerGame == hint_style = "none" /\ (mode \in {"ready", "computer"} \/ outcome # "NONE")

\* C1: in human-guesses mode the secret is inside the current range, at the
\* first prompt and after every accepted or rejected guess
C1_SecretInRange == UserGame => cur_lo <= secret /\ secret <= cur_hi

\* a guess was rejected after the range had narrowed onto the secret
C1_Witness ==
    /\ mode = "user"
    /\ attempts >= 1
    /\ cur_lo = secret
    /\ cur_hi = secret
    /\ lastInput.kind = "int"
    /\ lastInput.val < cur_lo

C3_Monotonic ==
    [][(mode = "user" \/ mode = "ready" \/ mode = "computer")
        => (cur_lo' >= cur_lo /\ cur_hi' <= cur_hi)]_vars

\* a system-guesses game whose range was narrowed from both ends
C3_Witness ==
    /\ mode = "computer"
    /\ cur_lo > 1
    /\ cur_hi < user.range_size
    /\ cur_lo <= cur_hi

\* C4: k is in [0.1, 0.8] after any number of record_game calls
C4_KBounded ==
    /\ RatLeq(Rat(1, 10), user.hot_cold_learner.k)
    /\ RatLeq(user.hot_cold_learner.k, Rat(8, 10))

\* two games recorded, the second with k already at its floor
C4_Witness ==
    /\ Len(user.hot_cold_learner.history) >= 2
    /\ user.hot_cold_learner.history[1][1] > 3 * target_guesses
    /\ user.hot_cold_learner.history[2][1] > target_guesses
    /\ user.hot_cold_learner.k = Rat(1, 10)

\* the input just read is one play_user_guesses rejects
Rejected(i) ==
    \/ i.kind = "text"
    \/ i.kind = "int" /\ (i.val < cur_lo \/ i.val > cur_hi)

\* C5: a rejected input of human-guesses mode counts no attempt and changes
\* neither the range nor the profile, and the game prompts again
C5_RejectChangesNothing ==
    [][mode = "user" /\ Rejected(lastInput')
        => /\ mode' = "user"
           /\ outcome' = outcome
           /\ UNCHANGED <<attempts, cur_lo, cur_hi, user, secret, hint_style>>]_vars

\* an integer of the first range was rejected after the range had narrowed
C5_Witness ==
    /\ mode = "user"
    /\ attempts >= 1
    /\ lastInput.kind = "int"
    /\ lastInput.val >= 1
    /\ lastInput.val <= user.range_size
    /\ (lastInput.val < cur_lo \/ lastInput.val > cur_hi)

\* C6: a response other than h, l or c is not counted, so the
\* count reported at WON is the number of guesses answered with h, l or c
C6_InvalidNotCounted ==
    ComputerGame /\ outcome = "WON" => attempts = answered

\* the first guess of a system-guesses game on [1, 100] with alpha = 0.5
FirstGuessOfScenario ==
    /\ mode = "computer"
    /\ attempts = 1
    /\ cur_lo = 1
    /\ cur_hi = 100
    /\ user.alpha = BigRat(1, 2)

\* C7 as claimed: that first guess is 51
C7_Original == FirstGuessOfScenario => guess = 51

\* C7, amended: that first guess is 50, since round() takes the tie 50.5 to
\* the even neighbour
C7_Amended == FirstGuessOfScenario => guess = 50

\* that first guess has been issued
C7_Witness == FirstGuessOfScenario /\ lastInput.kind = "line"

\* a fresh profile has won a human-guesses game of range 100 with secret 50
\* by the accepted guesses 75, 25, 50
WonScenario ==
    /\ ~file.exists
    /\ UserGame
    /\ outcome = "WON"
    /\ secret = 50
    /\ guess = 50
    /\ cur_lo = 26
    /\ cur_hi = 74
    /\ user.alpha =
          blend_alpha(blend_alpha(blend_alpha(BigRat(1, 2), 75, 1, 100),
                                  25, 1, 74), 50, 26, 74)

\* C8: the scenario ends with 3 attempts, avg_attempts 3, and k above its
\* value before the game, the constructor's 0.3
C8_ScenarioRaisesK ==
    WonScenario
        => /\ attempts = 3
           /\ user.avg_attempts = RatOfInt(3)
           /\ RatLess(HotColdLearner.k, user.hot_cold_learner.k)

\* C9: system-guesses mode changes no field of the profile or its learners,
\* from its start to any of its ends
C9_TrainsNothing ==
    [][(mode = "ready" \/ mode = "computer" \/ mode' = "ready")
        => user' = user]_vars

\* a system-guesses game was won on a second or later guess
C9_Witness ==
    /\ ComputerGame
    /\ mode = "menu"
    /\ outcome = "WON"
    /\ attempts >= 2
    /\ answered >= 2

\* C10: every guess of system-guesses mode is issued for a non-empty range
\* and lies in it; a response h or l that empties the range ends the game as
\* INVALID at the menu, with no further guess
C10_GuessInRange ==
    /\ [](mode = "computer"
            => cur_lo <= cur_hi /\ cur_lo <= guess /\ guess <= cur_hi)
    /\ [](outcome = "INVALID" => mode = "menu" /\ cur_lo > cur_hi)
    /\ [][mode = "computer" /\ cur_lo' > cur_hi'
            => /\ lastInput'.kind = "h" \/ lastInput'.kind = "l"
               /\ mode' = "menu"
               /\ outcome' = "INVALID"
               /\ guess' = guess
               /\ attempts' = attempts]_vars

\* a game ended INVALID after more than one guess
C10_Witness ==
    /\ mode = "menu"
    /\ outcome = "INVALID"
    /\ attempts >= 2
    /\ cur_lo > cur_hi

\* C11: end-of-input or an interrupt at an input read of a game mode (the
\* guess prompt, the ready prompt, the h/l/c prompt) ends the mode and
\* leaves the program at the menu or cleanly exited, never crashed
C11_InterruptEndsModeGracefully ==
    lastInput.kind = "eof" => (mode = "menu" \/ mode = "exited")

(***************************************************************************)
(* The start of a session alone: AdaptiveGame.__init__ on any file, also a *)
(* damaged one.                                                            *)
(***************************************************************************)
\* the record without one of its keys
Without(f, key) == [x \in DOMAIN f \ {key} |-> f[x]]

\* the record of a profile that has won one game in each style
PlayedRecord(a, r) ==
    [SavedRecord(UserProfile) EXCEPT
        !.alpha = a,
        !.range_size = r,
        !.avg_attempts = RatOfInt(2),
        !.games_played = Len(hint_styles),
        !.hot_cold_k = Rat(2, 10),
        !.hint_style_stats =
            [s \in Styles |-> [attempts |-> 1, avg_attempts |-> RatOfInt(2)]]]

\* a file that exists and is not JSON
Unparsable == [exists |-> TRUE, unparsable |-> TRUE]

\* a record as saved, or with hot_cold_k or hint_style_stats removed, or
\* with one key removed from the statistics of one style
Damaged(rec) ==
    {rec, Without(rec, "hot_cold_k"), Without(rec, "hint_style_stats")}
    \cup {[rec EXCEPT !.hint_style_stats[s] = Without(@, key)] :
            s \in Styles, key \in {"attempts", "avg_attempts"}}

LoadFiles ==
    {NoFile, Unparsable}
    \cup UNION {Damaged(PlayedRecord(a, r)) :
                    a \in SavedAlphas, r \in 1..MaxSavedRange}

\* main() has read the username; no AdaptiveGame yet
InitLoad ==
    /\ file \in LoadFiles
    /\ user = UserProfile
    /\ mode = "start"
    /\ NoGame

\* AdaptiveGame.__init__: a default profile, then load_from_file
StartSession ==
    /\ mode = "start"
    /\ user' = load_from_file(UserProfile, file)
    /\ mode' = "menu"
    /\ UNCHANGED <<file, game, outcome, lastInput>>

NextLoad == StartSession

SpecLoad == InitLoad /\ [][NextLoad]_vars

\* reading or parsing this file fails: it is not JSON, or the statistics of
\* some style lack a key
ReadFails(data) ==
    /\ data["exists"]
    /\ \/ json_load_raises(data)
       \/ /\ "hint_style_stats" \in DOMAIN data
          /\ \E s \in Styles \cap DOMAIN data["hint_style_stats"] :
                {"attempts", "avg_attempts"}
                    \ DOMAIN data["hint_style_stats"][s] # {}

\* C12: when reading or parsing the file fails at any point, load_from_file
\* returns false and leaves every field of the profile at its default
C12_FailedLoadLeavesDefaults ==
    mode = "menu" /\ ReadFails(file)
        => /\ ~load_from_file_returns(UserProfile, file)
           /\ user = UserProfile

\* C13: for every profile reachable by playing games, save_to_file followed
\* by load_from_file into a new profile reproduces every field of the
\* profile and of its two learners
C13_SaveLoadRoundTrip ==
    /\ load_from_file_returns(UserProfile, SavedRecord(user))
    /\ load_from_file(UserProfile, SavedRecord(user)) = user

(***************************************************************************)
(* The range adaptation alone: update_user_stats called with any numbers   *)
(* of attempts, from the constructor's profile or from one loaded with     *)
(* another range_size.                                                     *)
(***************************************************************************)
\* calls in a sequence of mixed attempts, and calls in the sequence that
\* reports ten attempts every time
MaxCalls == 6

ScenarioCalls == 11

\* the numbers of attempts reported: the least, the two thresholds, the ten
\* of the scenario
StatAttempts == {1, 4, 8, 10}

\* the range sizes loaded: the floor, near and at the ceiling
StatRanges == {10, 12, 9000, 10000}

StatFiles ==
    {NoFile}
    \cup {[SavedRecord(UserProfile) EXCEPT !.range_size = r] : r \in StatRanges}

InitStats ==
    /\ file \in StatFiles
    /\ user = load_from_file(UserProfile, file)
    /\ mode = "menu"
    /\ NoGame

\* every call so far reported ten attempts (an average of numbers up to ten
\* is ten only then)
AllTens == IsNone(user.avg_attempts) \/ user.avg_attempts = RatOfInt(10)

\* update_user_stats(a); attempts keeps the argument
UpdateUserStats(a) ==
    /\ \/ user.games_played < MaxCalls
       \/ a = 10 /\ AllTens /\ user.games_played < ScenarioCalls
    /\ attempts' = a
    /\ user' = update_user_stats(user, a)
    /\ UNCHANGED <<mode, file, secret, cur_lo, cur_hi, hint_style, explore,
                   guess, answered, outcome, lastInput>>

NextStats == \E a \in StatAttempts : UpdateUserStats(a)

SpecStats == InitStats /\ [][NextStats]_vars

\* C14: range_size stays in [10, 10000] under update_user_stats from any
\* range_size in [10, 10000]; and when a fresh profile reports ten attempts
\* on every call, avg_attempts is 10 after the first call and stays above 8,
\* and range_size strictly decreases with each call until it is 10, where
\* it stays
C14_RangeBounded ==
    /\ [](10 <= user.range_size /\ user.range_size <= 10000)
    /\ [][(~file.exists /\ AllTens /\ attempts' = 10)
            => /\ user'.avg_attempts = RatOfInt(10)
               /\ RatLess(RatOfInt(8), user'.avg_attempts)
               /\ 10 <= user'.range_size
               /\ (user.range_size > 10 => user'.range_size < user.range_size)
               /\ (user.range_size = 10 => user'.range_size = 10)]_vars

\* the fresh profile has reported ten attempts ScenarioCalls times: the range
\* has come down from 100 to 10 and stayed there for a call
C14_Witness ==
    /\ ~file.exists
    /\ user.games_played >= 11
    /\ attempts = 10
    /\ user.avg_attempts = RatOfInt(10)
    /\ user.range_size = 10

(***************************************************************************)
(* The bandit alone: the selection at the start of a human-guesses game    *)
(* and the update at its win, for any number of attempts.                  *)
(***************************************************************************)
\* games recorded by the bandit, and the largest number of attempts of one
MaxBanditGames == 4

MaxBanditAttempts == 3

\* the default exploration_rate of HintBandit.__init__
exploration_rate == Rat(1, 10)

\* the outcomes of random.random() < rate, random.random() being in [0, 1)
Draws(rate) ==
    {b \in BOOLEAN : /\ b => RatLess(RatOfInt(0), rate)
                     /\ ~b => RatLess(rate, RatOfInt(1))}

\* hint_bandit.select_hint_style() at the start of play_user_guesses, for a
\* bandit of that exploration rate; explore is the outcome of
\* random.random() < exploration_rate
SelectWith(rate) ==
    /\ mode = "menu"
    /\ user.hint_bandit.total_games < MaxBanditGames
    /\ \E e \in Draws(rate) :
          \E style \in select_hint_style(user.hint_bandit, e) :
            /\ explore' = e
            /\ hint_style' = style
    /\ mode' = "user"
    /\ UNCHANGED <<file, user, secret, attempts, cur_lo, cur_hi, guess,
                   answered, outcome, lastInput>>

SelectHintStyle == SelectWith(exploration_rate)

\* hint_bandit.update_stats(hint_style, n) at the win; attempts keeps n
UpdateStats(n) ==
    /\ mode = "user"
    /\ user' = [user EXCEPT !.hint_bandit = update_stats(@, hint_style, n)]
    /\ attempts' = n
    /\ mode' = "menu"
    /\ UNCHANGED <<file, secret, cur_lo, cur_hi, hint_style, explore, guess,
                   answered, outcome, lastInput>>

NextBandit ==
    \/ SelectHintStyle
    \/ \E n \in 1..MaxBanditAttempts : UpdateStats(n)

\* a profile of the constructor: no file of that name
InitBandit ==
    /\ file = NoFile
    /\ user = load_from_file(UserProfile, file)
    /\ mode = "menu"
    /\ NoGame

SpecBandit == InitBandit /\ [][NextBandit]_vars

\* the position of a style in hint_styles
IndexOf(s) == CHOOSE i \in 1..Len(hint_styles) : hint_styles[i] = s

\* C15: with exploration_rate = 0 (the draw never explores)
\* select_hint_style returns a style of minimal avg_attempts, the first of
\* them in the order hot_cold, higher_lower, range, and changes no state of
\* the bandit
C15_ExploitReturnsFirstMinimal ==
    [][(mode = "menu" /\ mode' = "user" /\ ~explore')
        => /\ \A s \in Styles :
                RatLeq(user.hint_bandit.avg_attempts[hint_style'],
                       user.hint_bandit.avg_attempts[s])
           /\ \A s \in Styles :
                IndexOf(s) < IndexOf(hint_style')
                    => RatLess(user.hint_bandit.avg_attempts[hint_style'],
                               user.hint_bandit.avg_attempts[s])
           /\ user'.hint_bandit = user.hint_bandit]_vars

\* an exploiting selection returned higher_lower, tied with range at the
\* minimum, after every style had been played
C15_Witness ==
    /\ mode = "user"
    /\ ~explore
    /\ hint_style = "higher_lower"
    /\ user.hint_bandit.attempts["hot_cold"] >= 1
    /\ user.hint_bandit.avg_attempts["higher_lower"]
          = user.hint_bandit.avg_attempts["range"]
    /\ RatLess(user.hint_bandit.avg_attempts["higher_lower"],
               user.hint_bandit.avg_attempts["hot_cold"])
    /\ user.hint_bandit.attempts["range"] >= 1

\* C16: the first update_stats(s, n) for a style s sets avg_attempts[s] to n
\* exactly, every later update_stats(s, m) sets it to 0.8 * old + 0.2 * m,
\* and an update for s leaves the attempts and avg_attempts of every other
\* style unchanged
C16_ColdStartThenBlend ==
    [][(mode = "user" /\ mode' = "menu")
        => LET old == user.hint_bandit
               new == user'.hint_bandit
               s == hint_style
           IN  /\ new.attempts[s] = old.attempts[s] + 1
               /\ old.attempts[s] = 0
                    => new.avg_attempts[s] = RatOfInt(attempts')
               /\ old.attempts[s] > 0
                    => /\ RatMul(RatOfInt(10), new.avg_attempts[s])
                            = RatAdd(RatMul(RatOfInt(8), old.avg_attempts[s]),
                                     RatOfInt(2 * attempts'))
               /\ \A t \in Styles \ {s} :
                    /\ new.attempts[t] = old.attempts[t]
                    /\ new.avg_attempts[t] = old.avg_attempts[t]]_vars

\* a style was updated a second time, with another number of attempts, while
\* another style had been played too
C16_Witness ==
    /\ mode = "menu"
    /\ hint_style \in Styles
    /\ user.hint_bandit.attempts[hint_style] = 2
    /\ user.hint_bandit.avg_attempts[hint_style] # RatOfInt(attempts)
    /\ \E t \in Styles \ {hint_style} : user.hint_bandit.attempts[t] = 1

(***************************************************************************)
(* The blend of alpha alone, in floats: an accepted guess of               *)
(* play_user_guesses in any range, from the position biases a profile      *)
(* starts with.                                                            *)
(***************************************************************************)
\* the largest cur_lo and the largest cur_hi
MaxBlendLo == 1

MaxBlendHi == 11

\* alpha of the constructor (0.5) and of persisted records
BlendAlphas == {float(1, 2), float(0, 1), float(3, 10), float(1, 1)}

InitBlend ==
    /\ file = NoFile
    /\ user \in {[UserProfile EXCEPT !.alpha = a] : a \in BlendAlphas}
    /\ mode = "user"
    /\ cur_lo \in 1..MaxBlendLo
    /\ cur_hi \in cur_lo..MaxBlendHi
    /\ secret = 0
    /\ attempts = 0
    /\ hint_style = "none"
    /\ explore = FALSE
    /\ guess = 0
    /\ answered = 0
    /\ outcome = "NONE"
    /\ lastInput = In("none", 0)

\* the first accepted guess, up to the blend
BlendGuess(g) ==
    /\ mode = "user"
    /\ attempts = 0
    /\ ~out_of_range(g, cur_lo, cur_hi)
    /\ lastInput' = In("int", g)
    /\ guess' = g
    /\ attempts' = attempts + 1
    /\ user' = [user EXCEPT
                  !.alpha = blend_alpha_float(user.alpha, g, cur_lo, cur_hi)]
    /\ UNCHANGED <<mode, file, secret, cur_lo, cur_hi, hint_style, explore,
                   answered, outcome>>

NextBlend == \E g \in 1..MaxBlendHi : BlendGuess(g)

SpecBlend == InitBlend /\ [][NextBlend]_vars

\* pos of the guess just accepted, as a float
Pos == float(guess' - cur_lo, cur_hi - cur_lo)

\* x <= y * (1 + 2^-51)
FLeqRounded(x, y) ==
    LET e == Max(x.e, y.e)
    IN  BigLeq(BigMulBig(BigMulBig(x.m, Pow2(51)), Pow2(e - x.e)),
               BigMulBig(BigMulBig(y.m, BigAdd(Pow2(51), <<1>>)), Pow2(e - y.e)))

FMin(x, y) == IF FLess(y, x) THEN y ELSE x

FMax(x, y) == IF FLess(x, y) THEN y ELSE x

\* C17 as claimed: for every accepted guess with cur_hi > cur_lo, pos is in
\* [0, 1] and the new alpha is in [min(alpha, pos), max(alpha, pos)]; with
\* cur_hi = cur_lo alpha is unchanged
C17_Original ==
    [][attempts' = attempts + 1
        => IF cur_hi > cur_lo
           THEN /\ FLeq(float(0, 1), Pos) /\ FLeq(Pos, float(1, 1))
                /\ FLeq(FMin(user.alpha, Pos), user'.alpha)
                /\ FLeq(user'.alpha, FMax(user.alpha, Pos))
           ELSE user'.alpha = user.alpha]_vars

\* C17, amended: pos is in [0, 1] and the new alpha is in
\* [min(alpha, pos), max(alpha, pos)] up to the rounding of the floats, that
\* is within a relative 2^-51 of that interval; with cur_hi = cur_lo alpha
\* is unchanged
C17_Amended ==
    [][attempts' = attempts + 1
        => IF cur_hi > cur_lo
           THEN /\ FLeq(float(0, 1), Pos) /\ FLeq(Pos, float(1, 1))
                /\ FLeqRounded(FMin(user.alpha, Pos), user'.alpha)
                /\ FLeqRounded(user'.alpha, FMax(user.alpha, Pos))
           ELSE user'.alpha = user.alpha]_vars

\* the guess 4 was accepted in [1, 11] with alpha = 0.3 = pos, and the new
\* alpha is above both
C17_Witness ==
    /\ attempts = 1
    /\ cur_lo = 1
    /\ cur_hi = 11
    /\ guess = 4
    /\ user.alpha = blend_alpha_float(float(3, 10), guess, cur_lo, cur_hi)
    /\ FLess(float(3, 10), user.alpha)
    /\ float(guess - cur_lo, cur_hi - cur_lo) = float(3, 10)

RECURSIVE SumAttempts(_, _)
SumAttempts(bandit, i) ==
    IF i > Len(hint_styles)
    THEN 0
    ELSE bandit.attempts[hint_styles[i]] + SumAttempts(bandit, i + 1)

\* the four counters of won human-guesses games
Counters(u) ==
    <<u.games_played, u.hint_bandit.total_games,
      SumAttempts(u.hint_bandit, 1), Len(u.hot_cold_learner.history)>>

\* C19: in a session whose profile started with no game recorded,
\* games_played, the bandit's total_games, the sum of its per-style
\* attempts and the length of the learner's history are equal at all times;
\* the win of a human-guesses game raises each by exactly one, and no other
\* step of either mode or of the menu changes any of them
C19_CountersAgree ==
    /\ [](\A i \in DOMAIN Counters(user) :
            Counters(user)[i] = user.games_played)
    /\ [][(mode = "user" /\ outcome' = "WON")
            => (\A i \in DOMAIN Counters(user) :
                    Counters(user')[i] = Counters(user)[i] + 1)]_vars
    /\ [][(Counters(user') # Counters(user))
            => (mode = "user" /\ mode' = "menu" /\ outcome' = "WON"
                    /\ guess' = secret)]_vars

\* a fresh profile has won a human-guesses game and then let the system win
\* one: every counter is one
C19_Witness ==
    /\ ~file.exists
    /\ ComputerGame
    /\ mode = "menu"
    /\ outcome = "WON"
    /\ Counters(user) = <<1, 1, 1, 1>>

(***************************************************************************)
(* The bandit with exploration_rate = 0, from the constructor's profile or *)
(* from a record in which some styles have a game.                         *)
(***************************************************************************)
\* the record of a profile that has won one game, of n attempts, in each
\* style of P
StylesPlayedRecord(P, n) ==
    [SavedRecord(UserProfile) EXCEPT
        !.games_played = Cardinality(P),
        !.avg_attempts = RatOfInt(n),
        !.hint_style_stats =
            [s \in Styles |->
                IF s \in P
                THEN [attempts |-> 1, avg_attempts |-> RatOfInt(n)]
                ELSE @[s]]]

ExploitFiles ==
    {NoFile}
    \cup {StylesPlayedRecord(P, n) :
            P \in SUBSET Styles \ {{}}, n \in 1..MaxBanditAttempts}

InitExploit ==
    /\ file \in ExploitFiles
    /\ user = load_from_file(UserProfile, file)
    /\ mode = "menu"
    /\ NoGame

SelectExploiting == SelectWith(RatOfInt(0))

NextExploit ==
    \/ SelectExploiting
    \/ \E n \in 1..MaxBanditAttempts : UpdateStats(n)

SpecExploit == InitExploit /\ [][NextExploit]_vars

\* the styles without a recorded game
Unplayed(bandit) == {s \in Styles : bandit.attempts[s] = 0}

\* C20: an unplayed style has avg_attempts 0 and a played one at least 1, so
\* the exploit path of select_hint_style returns an unplayed style while
\* there is one; and with exploration_rate = 0 on a fresh profile the first
\* three won human-guesses games use hot_cold, higher_lower and range, in
\* that order
C20_UnplayedFirst ==
    /\ [](\A s \in Styles :
            IF s \in Unplayed(user.hint_bandit)
            THEN user.hint_bandit.avg_attempts[s] = RatOfInt(0)
            ELSE RatLeq(RatOfInt(1), user.hint_bandit.avg_attempts[s]))
    /\ [][(mode = "menu" /\ mode' = "user" /\ ~explore'
                /\ Unplayed(user.hint_bandit) # {})
            => hint_style' \in Unplayed(user.hint_bandit)]_vars
    /\ [](~file.exists /\ hint_style \in Styles
                /\ user.hint_bandit.total_games
                     + (IF mode = "user" THEN 1 ELSE 0) <= Len(hint_styles)
            => hint_style = hint_styles[user.hint_bandit.total_games
                                + (IF mode = "user" THEN 1 ELSE 0)])

\* the third game of a fresh profile has been won, in the style range, after
\* one in hot_cold and one in higher_lower
C20_Witness ==
    /\ ~file.exists
    /\ mode = "menu"
    /\ hint_style = "range"
    /\ user.hint_bandit.total_games = 3
    /\ \A s \in Styles : user.hint_bandit.attempts[s] = 1

====
